---- MODULE Spec2Model ----
(* Model of the blockchain address validator (src/src/main.rs).            *)
(* A character is a one-character string, a text a sequence of characters. *)
(* Only ASCII texts are modelled, so a text's byte length (str::len) is    *)
(* the length of its sequence.                                             *)
EXTENDS Integers, Sequences, FiniteSets, TLC

VARIABLES pc, address, blockchain, verbose, validation_result, hash, called,
          stdout, stderr, exit_code

vars == <<pc, address, blockchain, verbose, validation_result, hash, called,
          stdout, stderr, exit_code>>

(* ------------------------------------------------------------------ *)
(* Characters                                                          *)
(* ------------------------------------------------------------------ *)
DecDigits == <<"0", "1", "2", "3", "4", "5", "6", "7", "8", "9">>

LowerLetters == <<"a", "b", "c", "d", "e", "f", "g", "h", "i", "j", "k", "l", "m",
                  "n", "o", "p", "q", "r", "s", "t", "u", "v", "w", "x", "y", "z">>

UpperLetters == <<"A", "B", "C", "D", "E", "F", "G", "H", "I", "J", "K", "L", "M",
                  "N", "O", "P", "Q", "R", "S", "T", "U", "V", "W", "X", "Y", "Z">>

Range(s) == {s[i] : i \in 1..Len(s)}

IndexOf(s, c) == CHOOSE i \in 1..Len(s) : s[i] = c

UpperChars == Range(UpperLetters)

HexChars ==
    Range(DecDigits) \cup Range(SubSeq(LowerLetters, 1, 6)) \cup Range(SubSeq(UpperLetters, 1, 6))

\* char::is_uppercase
is_uppercase(c) == c \in UpperChars

\* char::to_lowercase / str::to_lowercase on ASCII
to_lowercase_char(c) ==
    IF c \in UpperChars THEN LowerLetters[IndexOf(UpperLetters, c)] ELSE c

to_lowercase(s) == [i \in 1..Len(s) |-> to_lowercase_char(s[i])]

\* char::is_digit(16): 0-9, a-f and A-F
is_digit_16(c) == c \in HexChars

\* str::starts_with(prefix)
starts_with(s, p) == Len(s) >= Len(p) /\ SubSeq(s, 1, Len(p)) = p

\* str::strip_prefix(prefix), defined where starts_with holds
strip_prefix(s, p) == SubSeq(s, Len(p) + 1, Len(s))

\* format!("{}", bool)
FmtBool(b) == IF b THEN "true" ELSE "false"

\* format!("{} (actual: {})", bool, usize)
FmtActual(b, n) == FmtBool(b) \o " (actual: " \o ToString(n) \o ")"

\* The Base58 alphabet of the regex ^[1-9A-HJ-NP-Za-km-z]+$ and of bs58
Base58Alphabet ==
    <<"1", "2", "3", "4", "5", "6", "7", "8", "9",
      "A", "B", "C", "D", "E", "F", "G", "H", "J", "K", "L", "M", "N", "P", "Q",
      "R", "S", "T", "U", "V", "W", "X", "Y", "Z",
      "a", "b", "c", "d", "e", "f", "g", "h", "i", "j", "k", "m", "n", "o", "p",
      "q", "r", "s", "t", "u", "v", "w", "x", "y", "z">>

Base58Chars == Range(Base58Alphabet)

\* Regex ^[1-9A-HJ-NP-Za-km-z]+$ : non-empty, every character in the class
re_is_match(s) == Len(s) >= 1 /\ \A i \in 1..Len(s) : s[i] \in Base58Chars

\* hex::decode(s).is_ok(): even length and every character a hex digit
hex_decode_is_ok(s) == Len(s) % 2 = 0 /\ \A i \in 1..Len(s) : is_digit_16(s[i])

(* ------------------------------------------------------------------ *)
(* bs58::decode(address).into_vec(): the byte buffer is little-endian  *)
(* while decoding; only validity and the number of bytes are used.     *)
(* ------------------------------------------------------------------ *)
RECURSIVE bs58_carry(_, _, _)
\* for byte in output[..index]: val += byte * 58; byte = val & 0xff; val >>= 8
\* returns the updated bytes followed by the bytes of the remaining carry
bs58_carry(bytes, i, val) ==
    IF i <= Len(bytes)
    THEN LET v == val + bytes[i] * 58
         IN  bs58_carry([bytes EXCEPT ![i] = v % 256], i + 1, v \div 256)
    ELSE IF val > 0
         THEN bs58_carry(Append(bytes, val % 256), i + 1, val \div 256)
         ELSE bytes

RECURSIVE bs58_bytes(_, _, _)
bs58_bytes(s, i, bytes) ==
    IF i > Len(s) THEN bytes
    ELSE bs58_bytes(s, i + 1, bs58_carry(bytes, 1, IndexOf(Base58Alphabet, s[i]) - 1))

RECURSIVE bs58_leading_zeros(_, _)
\* input.take_while(|c| c == '1').count()
bs58_leading_zeros(s, i) ==
    IF i <= Len(s) /\ s[i] = Base58Alphabet[1] THEN 1 + bs58_leading_zeros(s, i + 1) ELSE 0

\* [is_ok, len]: Err(InvalidCharacter) on a character outside the alphabet
bs58_decode(s) ==
    IF \E i \in 1..Len(s) : s[i] \notin Base58Chars
    THEN [is_ok |-> FALSE, len |-> 0]
    ELSE [is_ok |-> TRUE,
          len |-> Len(bs58_bytes(s, 1, <<>>)) + bs58_leading_zeros(s, 1)]

(* ------------------------------------------------------------------ *)
(* ValidationResult                                                    *)
(* ------------------------------------------------------------------ *)
\* ValidationResult::new(): passed records the result argument of every
\* add_check call, in order (details keeps only the name and the message)
new == [valid |-> TRUE, details |-> <<>>, passed |-> <<>>]

add_check_reset(self, check, result, message) ==
    [valid |-> result,
     details |-> Append(self.details, <<check, message>>),
     passed |-> Append(self.passed, result)]

add_check(self, check, result, message) ==
    [valid |-> self.valid /\ result,
     details |-> Append(self.details, <<check, message>>),
     passed |-> Append(self.passed, result)]

(* ------------------------------------------------------------------ *)
(* Ethereum                                                            *)
(* ------------------------------------------------------------------ *)
DigestLen == 32

\* hash[i / 2] >> (if i % 2 == 0 { 4 } else { 0 }) & 0xf, i counted from 0
hash_val(h, i) == (h[(i \div 2) + 1] \div (IF i % 2 = 0 THEN 16 ELSE 1)) % 16

RECURSIVE checksum_all(_, _, _, _)
\* Iterator::all over the characters from 0-based index i on: stops at the
\* first false; indexing hash beyond its length panics
checksum_all(actual, lower, h, i) ==
    IF i >= Len(actual) THEN [panicked |-> FALSE, value |-> TRUE]
    ELSE IF is_digit_16(lower[i + 1]) THEN checksum_all(actual, lower, h, i + 1)
    ELSE IF i \div 2 >= Len(h) THEN [panicked |-> TRUE, value |-> FALSE]
    ELSE IF (hash_val(h, i) >= 8) = is_uppercase(actual[i + 1])
         THEN checksum_all(actual, lower, h, i + 1)
         ELSE [panicked |-> FALSE, value |-> FALSE]

\* validate_eth_checksum, given the Keccak-256 digest h of the lowercased hex part
validate_eth_checksum(addr, h) ==
    LET a == strip_prefix(addr, <<"0", "x">>)
    IN  checksum_all(a, to_lowercase(a), h, 0)

eth_has_hex_part_any2(addr) == Len(addr) >= 2

\* if let Some(hex_part) = address.strip_prefix("0x")
eth_has_hex_part(addr) == starts_with(addr, <<"0", "x">>)

\* does validate_eth_address call validate_eth_checksum (and so hash)?
eth_calls_checksum(addr) ==
    /\ eth_has_hex_part(addr)
    /\ \E i \in 3..Len(addr) : is_uppercase(addr[i])

eth_prefix_and_length_atleast(addr) ==
    LET starts_with_0x == starts_with(addr, <<"0", "x">>)
        correct_length == Len(addr) >= 42
        r1 == add_check(new, "Starts with 0x", starts_with_0x, FmtBool(starts_with_0x))
    IN  add_check(r1, "Length (42 chars)", correct_length,
                  FmtActual(correct_length, Len(addr)))

\* the first two checks of validate_eth_address
eth_prefix_and_length(addr) ==
    LET starts_with_0x == starts_with(addr, <<"0", "x">>)
        correct_length == Len(addr) = 42
        r1 == add_check(new, "Starts with 0x", starts_with_0x, FmtBool(starts_with_0x))
    IN  add_check(r1, "Length (42 chars)", correct_length,
                  FmtActual(correct_length, Len(addr)))

\* validate_eth_address: [panicked, result]
validate_eth_address(addr, verb, h) ==
    LET r2 == eth_prefix_and_length(addr)
    IN  IF ~eth_has_hex_part(addr)
        THEN [panicked |-> FALSE, result |-> r2]
        ELSE LET hex_part == strip_prefix(addr, <<"0", "x">>)
                 is_valid_hex == hex_decode_is_ok(hex_part)
                 r3 == add_check(r2, "Valid hex characters", is_valid_hex,
                                 FmtBool(is_valid_hex))
             IN  IF \E i \in 1..Len(hex_part) : is_uppercase(hex_part[i])
                 THEN LET c == validate_eth_checksum(addr, h)
                      IN  IF c.panicked
                          THEN [panicked |-> TRUE, result |-> r3]
                          ELSE [panicked |-> FALSE,
                                result |-> add_check(r3, "EIP-55 checksum", c.value,
                                                     FmtBool(c.value))]
                 ELSE [panicked |-> FALSE,
                       result |-> add_check(r3, "EIP-55 checksum", TRUE,
                                            "skipped (all lowercase)")]

(* ------------------------------------------------------------------ *)
(* Bitcoin                                                             *)
(* ------------------------------------------------------------------ *)
\* address.chars().next() == Some(c)
first_char_is(addr, c) == Len(addr) >= 1 /\ addr[1] = c

btc_length_ok_exclusive(addr) ==
    LET is_legacy == first_char_is(addr, "1")
        is_p2sh == first_char_is(addr, "3")
        is_bech32 == starts_with(addr, <<"b", "c", "1">>)
    IN  IF is_legacy THEN Len(addr) = 34 \/ Len(addr) = 33
        ELSE IF is_p2sh THEN Len(addr) = 34
        ELSE IF is_bech32 THEN Len(addr) >= 42 /\ Len(addr) < 62
        ELSE FALSE

\* let length_ok = if is_legacy { .. } else if is_p2sh { .. } else if is_bech32 { .. }
btc_length_ok(addr) ==
    LET is_legacy == first_char_is(addr, "1")
        is_p2sh == first_char_is(addr, "3")
        is_bech32 == starts_with(addr, <<"b", "c", "1">>)
    IN  IF is_legacy THEN Len(addr) = 34 \/ Len(addr) = 33
        ELSE IF is_p2sh THEN Len(addr) = 34
        ELSE IF is_bech32 THEN Len(addr) >= 42 /\ Len(addr) <= 62
        ELSE FALSE

validate_btc_address_verbose(addr, verb) ==
    LET is_legacy == first_char_is(addr, "1")
        is_p2sh == first_char_is(addr, "3")
        is_bech32 == starts_with(addr, <<"b", "c", "1">>)
        r1 == add_check(new, "Address type", is_legacy \/ is_p2sh \/ is_bech32,
                        IF is_legacy THEN "Legacy (starts with 1)"
                        ELSE IF is_p2sh THEN "P2SH (starts with 3)"
                        ELSE IF is_bech32 THEN "Bech32 (starts with bc1)"
                        ELSE "Unknown")
        length_ok == btc_length_ok(addr)
        r2 == add_check(r1, "Length", length_ok, FmtActual(length_ok, Len(addr)))
    IN  IF (is_legacy \/ is_p2sh) /\ verb
        THEN LET is_base58 == re_is_match(addr)
             IN  add_check(r2, "Base58 characters", is_base58, FmtBool(is_base58))
        ELSE r2

validate_btc_address(addr, verb) ==
    LET is_legacy == first_char_is(addr, "1")
        is_p2sh == first_char_is(addr, "3")
        is_bech32 == starts_with(addr, <<"b", "c", "1">>)
        r1 == add_check(new, "Address type", is_legacy \/ is_p2sh \/ is_bech32,
                        IF is_legacy THEN "Legacy (starts with 1)"
                        ELSE IF is_p2sh THEN "P2SH (starts with 3)"
                        ELSE IF is_bech32 THEN "Bech32 (starts with bc1)"
                        ELSE "Unknown")
        length_ok == btc_length_ok(addr)
        r2 == add_check(r1, "Length", length_ok, FmtActual(length_ok, Len(addr)))
    IN  IF is_legacy \/ is_p2sh
        THEN LET is_base58 == re_is_match(addr)
             IN  add_check(r2, "Base58 characters", is_base58, FmtBool(is_base58))
        ELSE r2

(* ------------------------------------------------------------------ *)
(* Solana                                                              *)
(* ------------------------------------------------------------------ *)
sol_first_char_ok_1to6(addr) == Len(addr) >= 1 /\ addr[1] \in Range(SubSeq(DecDigits, 2, 7))

\* address.starts_with(|c| ('1'..='5').contains(&c))
sol_first_char_ok(addr) == Len(addr) >= 1 /\ addr[1] \in Range(SubSeq(DecDigits, 2, 6))

\* the three checks made whatever the flag
sol_basic_checks(addr) ==
    LET length_ok == Len(addr) >= 32 /\ Len(addr) <= 44
        r1 == add_check(new, "Length (32-44 chars)", length_ok,
                        FmtActual(length_ok, Len(addr)))
        is_base58 == re_is_match(addr)
        r2 == add_check(r1, "Base58 characters", is_base58, FmtBool(is_base58))
        first_char_ok == sol_first_char_ok(addr)
    IN  add_check(r2, "First character (1-5)", first_char_ok,
                  FmtBool(first_char_ok) \o " (actual: "
                      \o (IF Len(addr) >= 1 THEN addr[1] ELSE " ") \o ")")

\* the Base58 decoding checks of validate_sol_address, appended to r
sol_decode_checks(r, addr) ==
    LET decode_result == bs58_decode(addr)
        is_valid_encoding == decode_result.is_ok
        is_correct_length == decode_result.is_ok /\ decode_result.len = 32
        r4 == add_check(r, "Base58 decoding", is_valid_encoding,
                        FmtBool(is_valid_encoding))
    IN  IF is_valid_encoding
        THEN add_check(r4, "Decoded length (32 bytes)", is_correct_length,
                       FmtActual(is_correct_length, decode_result.len))
        ELSE r4

sol_decode_gate_verbose_only(r, verb) == verb

\* the condition under which validate_sol_address decodes
sol_decode_gate(r, verb) == r.valid /\ verb

validate_sol_address(addr, verb) ==
    LET r3 == sol_basic_checks(addr)
    IN  IF sol_decode_gate(r3, verb) THEN sol_decode_checks(r3, addr) ELSE r3

(* ------------------------------------------------------------------ *)
(* Inputs                                                              *)
(* ------------------------------------------------------------------ *)
MaxBody == 1

Blockchains == {"eth", "btc", "sol", "doge"}

Prefixes == {<<>>, <<"0", "x">>, <<"b", "c", "1">>}

BodyChars == {"1", "3", "6", "0", "A", "G"}

FillChars == {"1", "a"}

Tails == {<<>>, <<"g">>, <<"0">>}

Bodies == UNION {[1..n -> BodyChars] : n \in 0..MaxBody}

\* the lengths at which the validators' comparisons change, and their neighbours
Lengths ==
    (0..3) \cup {k + d : k \in {32, 33, 34, 42, 44, 62, 2 + 2 * DigestLen}, d \in {-1, 0, 1}}

\* prefix, body, a run of the fill character up to length n, tail
Build(p, b, f, t, n) ==
    LET k == n - Len(p) - Len(b) - Len(t)
    IN  p \o b \o [i \in 1..(IF k > 0 THEN k ELSE 0) |-> f] \o t

Addresses ==
    {Build(p, b, f, t, n) : p \in Prefixes, b \in Bodies, f \in FillChars,
                            t \in Tails, n \in Lengths}

\* Keccak-256 digests: 32 bytes, the first and the others chosen among bytes
\* whose nibbles lie on both sides of 8
Digests ==
    {[i \in 1..DigestLen |-> IF i = 1 THEN b1 ELSE b2] : b1 \in {0, 8, 128, 136},
                                                        b2 \in {0, 8, 128, 136}}

(* ------------------------------------------------------------------ *)
(* main                                                                *)
(* ------------------------------------------------------------------ *)
Init ==
    /\ pc = "match"
    /\ address \in Addresses
    /\ blockchain \in Blockchains
    /\ verbose \in BOOLEAN
    /\ validation_result = new
    /\ hash = <<>>
    /\ called = <<>>
    /\ stdout = <<>>
    /\ stderr = <<>>
    /\ exit_code = -1

\* "eth" => validate_eth_address(&args.address, args.verbose); a panic
\* inside it ends the process with code 101
MatchEth ==
    /\ pc = "match"
    /\ blockchain = "eth"
    /\ \E h \in (IF eth_calls_checksum(address) THEN Digests ELSE {<<>>}) :
          LET r == validate_eth_address(address, verbose, h)
          IN  /\ hash' = h
              /\ IF r.panicked
                 THEN /\ UNCHANGED validation_result
                      /\ pc' = "done"
                      /\ exit_code' = 101
                      /\ stderr' = Append(stderr, "index out of bounds")
                 ELSE /\ validation_result' = r.result
                      /\ pc' = "print_verdict"
                      /\ UNCHANGED <<exit_code, stderr>>
    /\ called' = Append(called, "validate_eth_address")
    /\ UNCHANGED <<address, blockchain, verbose, stdout>>

MatchBtc ==
    /\ pc = "match"
    /\ blockchain = "btc"
    /\ validation_result' = validate_btc_address(address, verbose)
    /\ called' = Append(called, "validate_btc_address")
    /\ pc' = "print_verdict"
    /\ UNCHANGED <<address, blockchain, verbose, hash, stdout, stderr, exit_code>>

MatchSol ==
    /\ pc = "match"
    /\ blockchain = "sol"
    /\ validation_result' = validate_sol_address(address, verbose)
    /\ called' = Append(called, "validate_sol_address")
    /\ pc' = "print_verdict"
    /\ UNCHANGED <<address, blockchain, verbose, hash, stdout, stderr, exit_code>>

\* _ => { eprintln!(...); process::exit(1) }
MatchUnsupported ==
    /\ pc = "match"
    /\ blockchain \notin {"eth", "btc", "sol"}
    /\ stderr' = Append(stderr, "Unsupported blockchain type: " \o blockchain)
    /\ exit_code' = 1
    /\ pc' = "done"
    /\ UNCHANGED <<address, blockchain, verbose, validation_result, hash, called, stdout>>

\* the verdict line (the leading emoji is left out)
PrintVerdict ==
    /\ pc = "print_verdict"
    /\ stdout' = Append(stdout, IF validation_result.valid THEN "Address is valid!"
                                                          ELSE "Invalid address!")
    /\ pc' = "print_details"
    /\ UNCHANGED <<address, blockchain, verbose, validation_result, hash, called,
                   stderr, exit_code>>

DetailLines(details) ==
    [i \in 1..Len(details) |-> "- " \o details[i][1] \o ": " \o details[i][2]]

PrintDetails ==
    /\ pc = "print_details"
    /\ verbose
    /\ stdout' = stdout \o <<"Validation details:">> \o DetailLines(validation_result.details)
    /\ exit_code' = 0
    /\ pc' = "done"
    /\ UNCHANGED <<address, blockchain, verbose, validation_result, hash, called, stderr>>

Return ==
    /\ pc = "print_details"
    /\ ~verbose
    /\ exit_code' = 0
    /\ pc' = "done"
    /\ UNCHANGED <<address, blockchain, verbose, validation_result, hash, called,
                   stdout, stderr>>

Next ==
    \/ MatchEth
    \/ MatchBtc
    \/ MatchSol
    \/ MatchUnsupported
    \/ PrintVerdict
    \/ PrintDetails
    \/ Return

Spec == Init /\ [][Next]_vars

(* ------------------------------------------------------------------ *)
(* Properties                                                          *)
(* ------------------------------------------------------------------ *)
Supported == {"eth", "btc", "sol"}

\* the validator has returned a report to main
Returned == pc \in {"print_verdict", "print_details"} \/ (pc = "done" /\ exit_code = 0)

\* the process ended in a panic
Panicked == pc = "done" /\ exit_code = 101

Names(r) == [i \in 1..Len(r.details) |-> r.details[i][1]]

AllPassed(r) == \A i \in 1..Len(r.passed) : r.passed[i]

EthNames == <<"Starts with 0x", "Length (42 chars)", "Valid hex characters", "EIP-55 checksum">>

\* C1: the returned report's overall validity is the conjunction of the
\* results of all the checks added to it, one result per reported check.
Thm_C1 ==
    Returned =>
        /\ Len(validation_result.passed) = Len(validation_result.details)
        /\ validation_result.valid = AllPassed(validation_result)

\* a report in which a passing check follows a failing one
Wit_C1 ==
    /\ Returned
    /\ ~validation_result.valid
    /\ \E i, j \in 1..Len(validation_result.passed) :
          i < j /\ ~validation_result.passed[i] /\ validation_result.passed[j]

\* C2: for a supported chain the run never aborts: once over, it has
\* returned a report (exit code 0) whatever the address.
Cex_C2 == (pc = "done" /\ blockchain \in Supported) => exit_code = 0

EIP55Rule(addr, h) ==
    \A i \in 0..39 :
        to_lowercase_char(addr[i + 3]) \in Range(SubSeq(LowerLetters, 1, 6))
            => (is_uppercase(addr[i + 3]) <=> hash_val(h, i) >= 8)

\* C4: on a 0x-prefixed address of 40 hex characters the checksum
\* verification returns true exactly when every hex letter is uppercase
\* iff its digest nibble is at least 8.
Cex_C4 ==
    ( /\ Returned
      /\ blockchain = "eth"
      /\ Len(address) = 42
      /\ eth_calls_checksum(address)
      /\ \A i \in 3..42 : address[i] \in HexChars )
    => (validation_result.passed[4] <=> EIP55Rule(address, hash))

\* C5: an Ethereum address of length 41 or 43 fails the length check; one
\* of length 42 that starts with 0x and has a non-hex character after it
\* passes the length check, fails the hex check and is invalid.
Thm_C5 ==
    (pc # "match" /\ blockchain = "eth" /\ Len(address) \in {41, 42, 43}) =>
        /\ Returned
        /\ Len(address) \in {41, 43} => ~validation_result.passed[2]
        /\ ( /\ Len(address) = 42
             /\ starts_with(address, <<"0", "x">>)
             /\ \E i \in 3..42 : address[i] \notin HexChars )
           => /\ validation_result.passed[2]
              /\ ~validation_result.passed[3]
              /\ ~validation_result.valid

\* a 42-character 0x address with a non-hex character, validated
Wit_C5 ==
    /\ Returned
    /\ blockchain = "eth"
    /\ Len(address) = 42
    /\ starts_with(address, <<"0", "x">>)
    /\ \E i \in 3..42 : address[i] \notin HexChars
    /\ ~validation_result.valid

AllBase58(addr) == \A i \in 1..Len(addr) : addr[i] \in Base58Chars

BtcAccepted(addr) ==
    \/ Len(addr) \in {33, 34} /\ addr[1] = "1" /\ AllBase58(addr)
    \/ Len(addr) = 34 /\ addr[1] = "3" /\ AllBase58(addr)
    \/ Len(addr) \in 42..62 /\ SubSeq(addr, 1, 3) = <<"b", "c", "1">>

\* C6: the Bitcoin verdict is valid exactly for Legacy (1, 33 or 34
\* characters, Base58), P2SH (3, 34 characters, Base58) and Bech32 (bc1, 42
\* to 62 characters) addresses, and a Bech32 report has no Base58 check.
Thm_C6 ==
    (pc # "match" /\ blockchain = "btc") =>
        /\ Returned
        /\ validation_result.valid <=> BtcAccepted(address)
        /\ starts_with(address, <<"b", "c", "1">>)
               => Names(validation_result) = <<"Address type", "Length">>

\* a valid Bech32 address of the greatest accepted length
Wit_C6 ==
    /\ Returned
    /\ blockchain = "btc"
    /\ validation_result.valid
    /\ starts_with(address, <<"b", "c", "1">>)
    /\ Len(address) = 62

\* C7 (as stated): with verbose set, the Solana report holds the decoding check.
Cex_C7 ==
    (Returned /\ blockchain = "sol" /\ verbose) =>
        \E i \in 1..Len(validation_result.details) :
            validation_result.details[i][1] = "Base58 decoding"

\* C7 (amended): the Solana decoding checks are in the report exactly when
\* verbose is set and the length, Base58 and first-character checks all passed.
Thm_C7 ==
    (Returned /\ blockchain = "sol") =>
        IF verbose /\ validation_result.passed[1] /\ validation_result.passed[2]
                   /\ validation_result.passed[3]
        THEN /\ Len(validation_result.details) >= 4
             /\ validation_result.details[4][1] = "Base58 decoding"
        ELSE Len(validation_result.details) = 3

\* a verbose Solana run whose decoding was suppressed by an earlier failed check
Wit_C7 ==
    /\ Returned
    /\ blockchain = "sol"
    /\ verbose
    /\ ~validation_result.passed[3]
    /\ Len(validation_result.details) = 3

\* C8: a Solana address whose first character is not in 1..5 fails the
\* first-character check and is invalid, whatever the verbosity.
Thm_C8 ==
    (pc # "match" /\ blockchain = "sol") =>
        /\ Returned
        /\ (Len(address) = 0 \/ address[1] \notin {"1", "2", "3", "4", "5"})
               => ~validation_result.passed[3] /\ ~validation_result.valid

\* a 44-character all-Base58 address starting with 6, validated with verbose on
Wit_C8 ==
    /\ Returned
    /\ blockchain = "sol"
    /\ verbose
    /\ Len(address) = 44
    /\ address[1] = "6"
    /\ AllBase58(address)
    /\ ~validation_result.valid

Verdicts == {i \in 1..Len(stdout) : stdout[i] \in {"Address is valid!", "Invalid address!"}}

\* C9: an unsupported chain ends with an error and exit code 1, no validator
\* run and no verdict; a supported chain runs exactly its validator and
\* emits exactly one verdict.
Cex_C9 ==
    pc = "done" =>
        IF blockchain \notin Supported
        THEN exit_code = 1 /\ Len(stderr) = 1 /\ called = <<>> /\ stdout = <<>>
        ELSE /\ called = <<"validate_" \o blockchain \o "_address">>
             /\ Cardinality(Verdicts) = 1

\* C10: the Solana report with the flag flipped agrees on the first three
\* checks, the verbose one only appends, and a valid verbose verdict implies
\* a valid non-verbose one; Ethereum and Bitcoin outcomes ignore the flag.
Thm_C10 ==
    pc # "match" =>
        /\ blockchain = "sol" =>
              LET other == validate_sol_address(address, ~verbose)
                  on == IF verbose THEN validation_result ELSE other
                  off == IF verbose THEN other ELSE validation_result
              IN  /\ Len(off.details) = 3
                  /\ SubSeq(on.details, 1, 3) = off.details
                  /\ SubSeq(on.passed, 1, 3) = off.passed
                  /\ on.valid => off.valid
        /\ blockchain = "btc" => validate_btc_address(address, ~verbose) = validation_result
        /\ blockchain = "eth" =>
              LET other == validate_eth_address(address, ~verbose, hash)
              IN  /\ other.panicked = Panicked
                  /\ ~Panicked => other.result = validation_result

\* a verbose Solana run that is invalid only because of the decoded length
Wit_C10 ==
    /\ Returned
    /\ blockchain = "sol"
    /\ verbose
    /\ ~validation_result.valid
    /\ validate_sol_address(address, FALSE).valid

====
